---- MODULE Spec2Model ----
(***************************************************************************)
(* Model of the concurrency subsystem of Lily-Discord-Adapter              *)
(* (services/concurrency_manager.py): the token-bucket RateLimiter, the    *)
(* per-user UserRateLimiter, the MessageQueue and the ConcurrencyManager   *)
(* worker pool; and of its session subsystem                               *)
(* (services/session_service.py and the controllers): the SessionService   *)
(* store, the phrase classification and the session lifecycle.             *)
(*                                                                         *)
(* Time is discrete.  One tick is 1/TicksPerSecond of a second, and the    *)
(* float field RateLimiter.tokens is kept as an integer number of          *)
(* 1/TicksPerSecond token units, so that                                   *)
(*     tokens_to_add = time_passed * max_requests_per_second               *)
(* is exact: a whole token is TicksPerSecond units.                        *)
(*                                                                         *)
(* The program runs on one asyncio event loop: code between two points at  *)
(* which a coroutine really suspends is one atomic action.                 *)
(***************************************************************************)
EXTENDS Integers, Sequences, FiniteSets, Bags, TLC

\* ------------------------------------------------------------------ bounds
TicksPerSecond == 2
MaxTime == 2
MaxRate == 2
MaxBurst == 1
MaxTimeout == 2
NumCallers == 2
NumUsers == 2
MaxStreak == 2
NumItems == 3
QueueSize == 2
NumWorkers == 1
MaxPriority == 1
NumSessionUsers == 3
MaxSessions == 2
MaxHistory == 1
SessionTimeout == 1
MaxWall == 2
MaxTotal == 3
NumContents == 1
MaxLen == 5
MaxDeque == 3
MaxAppends == 5
MaxMsgs == 3

\* ------------------------------------------------------- program constants
\* RateLimitConfig() field defaults
DefaultRate == 10
DefaultBurst == 20

VARIABLES
    now,          \* time.monotonic(), in ticks
    config,       \* RateLimiter.config of the limiter under study
    tokens,       \* RateLimiter.tokens, in 1/TicksPerSecond units
    last_update,  \* RateLimiter.last_update
    calls,        \* the calls in progress on the limiter, a bag of
                  \* [pc, start, timeout]: pc is "acquire" or "wait_for_token"
                  \* (the call is scheduled and has not run) or "sleep"
                  \* (inside wait_for_token); start is wait_for_token's
                  \* start_time and timeout its timeout in ticks
    last_ret,     \* what the call that returned last returned
    overlapped,   \* the latest acquire() ran while other calls were scheduled,
                  \* and no call has been scheduled since
    acq_prev,     \* history: the last but one acquire() on the limiter, and
    acq_last,     \* the last one: its `now`, the tokens it found after the
                  \* refill, its result, and whether it was already scheduled
                  \* when the acquire() before it ran
    grants,       \* history: number of acquire() == True per value of `now`
    default_config,  \* UserRateLimiter.default_config
    user_limits,  \* UserRateLimiter._user_limits: dict user_id -> config
    solo_limits,  \* per user u: _user_limits of the run that makes only the
                  \* calls made for u, and none of the calls for other users
    ulast,        \* the latest UserRateLimiter.acquire: its user, its result,
                  \* and the result of the same call in that user's solo run
    streak,       \* history: the user of the latest acquire and how many
                  \* acquire calls in a row returned True for that user with
                  \* no call for that user refused, no time elapsed and that
                  \* user's config not set in between
    queue,        \* MessageQueue._queue: the (priority, item) tuples, in order
    processing,   \* MessageQueue._processing
    errors,       \* MessageQueue._errors
    running,      \* ConcurrencyManager._running
    workers,      \* the worker tasks, a bag of [pc, item, cancelled, listed]:
                  \* pc is "loop" (at the while test), "wait" (in get()),
                  \* "proc" (inside func(item)) or "exit" (task done);
                  \* cancelled: task.cancel() was called and has not been
                  \* delivered; listed: the task is in ConcurrencyManager._workers
    shut,         \* shutdown(): "idle", or "gather" while it awaits the tasks
    istate,       \* history, per item: "unsent", "put" and "blocked" (inside
                  \* MessageQueue.put), "limited", "dropped", "queued",
                  \* "inflight", "done", "failed", "cancelled"
    iprio,        \* per item: the priority argument, while inside put
    sres,         \* per item: what submit_message returned
    wall,         \* datetime.now(), in ticks of its own
    sessions,     \* SessionService._sessions: the dict in insertion order,
                  \* a sequence of [key, user_id, sid, created_at,
                  \* last_activity, active, history, max_history]; key is
                  \* the dict key, the other fields are those of the
                  \* UserSession (max_history is the maxlen of its deque)
    total_sessions,    \* SessionService._total_sessions
    expired_sessions,  \* SessionService._expired_sessions
    leaving,      \* the users with a goodbye handler suspended between its
                  \* is_session_active test and its end_session call
    channels,     \* the keys of LilyCoreController._user_sessions
    content,      \* message.content of the message under study
    handled,      \* how handle_user_message treated it: the branch taken
                  \* and what extract_message_after_wake returned
    sess,         \* one UserSession under study, on its own
    appended,     \* history: every message add_message was given for it,
                  \* in call order
    pooled,       \* MessageController.concurrency_manager is set
    inbox,        \* history: the messages of one author that on_message
                  \* has passed to handle_user_message, in order, each with
                  \* the position of its handler: [raw, channel, attachments,
                  \* branch, pc, text, fwd, active, sid, at]; pc is "submit"
                  \* (inside submit_message), "send" and "fallback" (inside
                  \* send_chat_message) or "done"
    requests,     \* history, per message of inbox: the calls of
                  \* send_chat_message made for it, in order, with their
                  \* arguments and what they returned
    delivered,    \* history, per message of inbox: what was sent to
                  \* Discord channels for it, in order
    work,         \* the message_data dicts that submit_message accepted and
                  \* no worker has taken yet
    task          \* process_message_task: idle, or its message_data

rlVars == <<config, tokens, last_update>>
callerVars == <<calls, last_ret, overlapped, acq_prev, acq_last, grants>>
urlVars == <<default_config, user_limits, solo_limits, ulast, streak>>
cmVars == <<queue, processing, errors, running, workers, shut, istate, iprio, sres>>
ssVars == <<wall, sessions, total_sessions, expired_sessions, leaving, channels>>
msgVars == <<content, handled>>
histVars == <<sess, appended>>
flowVars == <<pooled, inbox, requests, delivered, work, task>>
vars == <<now, config, tokens, last_update,
          calls, last_ret, overlapped, acq_prev, acq_last, grants,
          default_config, user_limits, solo_limits, ulast, streak,
          queue, processing, errors, running, workers, shut, istate, iprio, sres,
          wall, sessions, total_sessions, expired_sessions, leaving, channels,
          content, handled, sess, appended,
          pooled, inbox, requests, delivered, work, task>>

Min(a, b) == IF a <= b THEN a ELSE b

Times == 0..MaxTime
Users == 1..NumUsers
Items == 1..NumItems
\* what a call returned: Python's True and False, no call has returned yet,
\* or the exception wait_for_token raises
NoResult == "none"
RetTrue == "True"
RetFalse == "False"
Ret(b) == IF b THEN RetTrue ELSE RetFalse
TimedOut == "TimeoutError"

\* RateLimitConfig: the two fields the limiter reads
RateLimitConfig(rate, burst) ==
    [max_requests_per_second |-> rate, burst_limit |-> burst]
Configs ==
    {RateLimitConfig(r, b) : r \in 0..MaxRate, b \in 0..MaxBurst}

\* ------------------------------------------------------------- RateLimiter
\* one whole token, in token units
OneToken == TicksPerSecond

\* config.burst_limit in token units
BurstUnits(cfg) == cfg.burst_limit * TicksPerSecond

\* RateLimiter.__init__: a full bucket, stamped with the current time
NewLimiter(cfg, t) == [tokens |-> BurstUnits(cfg), last_update |-> t]

\* tokens_to_add = time_passed * max_requests_per_second
\* self.tokens = min(self.tokens + tokens_to_add, burst_limit)
RefillUncapped(tok, last, t, cfg) ==
    tok + (t - last) * cfg.max_requests_per_second
Refill(tok, last, t, cfg) ==
    Min(tok + (t - last) * cfg.max_requests_per_second, BurstUnits(cfg))

\* if self.tokens >= 1
HasTokenAny(tok) == tok > 0
HasToken(tok) == tok >= OneToken

\* self.tokens -= 1
TakeNone(tok) == tok
TakeToken(tok) == tok - OneToken

\* RateLimiter.acquire, the whole body under self._lock.  The body has no
\* suspension point, so the lock is taken and released inside one action.
AcquireTokenFree(tok, last, t, cfg) ==
    LET filled == Refill(tok, last, t, cfg)
    IN  [ok |-> HasToken(filled), seen |-> filled, tokens |-> filled, last_update |-> t]
AcquireToken(tok, last, t, cfg) ==
    LET filled == Refill(tok, last, t, cfg)
    IN  [ok          |-> HasToken(filled),
         seen        |-> filled,
         tokens      |-> IF HasToken(filled) THEN TakeToken(filled) ELSE filled,
         last_update |-> t]

\* ------------------------------------------- RateLimiter under many callers
InitLimiter ==
    /\ now = 0
    /\ config \in Configs
    /\ tokens = NewLimiter(config, 0).tokens
    /\ last_update = NewLimiter(config, 0).last_update

\* no acquire() yet
NoCall == [t |-> -1, seen |-> 0, ok |-> FALSE, overlap |-> FALSE]

\* a call in progress
Call(pc, start, timeout) == [pc |-> pc, start |-> start, timeout |-> timeout]
One(call) == SetToBag({call})

InitCallers ==
    /\ calls = EmptyBag
    /\ last_ret = NoResult
    /\ overlapped = FALSE
    /\ acq_prev = NoCall
    /\ acq_last = NoCall
    /\ grants = [t \in Times |-> 0]

\* UserRateLimiter.__init__: an empty dict (and no call made yet)
InitUserLimits ==
    /\ user_limits = << >>
    /\ solo_limits = [u \in Users |-> << >>]
    /\ ulast = [user |-> 0, res |-> NoResult, solo |-> NoResult]
    /\ streak = [user |-> 0, n |-> 0]

\* UserRateLimiter(): default_config = default_config or RateLimitConfig()
InitUsers ==
    /\ default_config = RateLimitConfig(DefaultRate, DefaultBurst)
    /\ InitUserLimits

\* MessageQueue.__init__ and ConcurrencyManager.__init__: an empty queue, zero
\* counters, no worker, not running (and no message submitted yet)
InitManager ==
    /\ queue = << >>
    /\ processing = 0
    /\ errors = 0
    /\ running = FALSE
    /\ workers = EmptyBag
    /\ shut = "idle"
    /\ istate = [i \in Items |-> "unsent"]
    /\ iprio = [i \in Items |-> 0]
    /\ sres = [i \in Items |-> NoResult]

\* SessionService.__init__ and LilyCoreController.__init__
InitSessions ==
    /\ wall = 0
    /\ sessions = << >>
    /\ total_sessions = 0
    /\ expired_sessions = 0
    /\ leaving = {}
    /\ channels = {}

\* no UserSession is studied on its own
NoSessionAlone ==
    /\ sess = [max_history |-> 0, history |-> << >>]
    /\ appended = << >>

\* process_message_task is not running
Idle == [pc |-> "idle"]

\* no MessageController is followed
NoTraffic ==
    /\ pooled = FALSE
    /\ inbox = << >>
    /\ requests = << >>
    /\ delivered = << >>
    /\ work = << >>
    /\ task = Idle

\* no message has arrived
NotHandled == [branch |-> "none", extracted |-> << >>]
NoMessage ==
    /\ content = << >>
    /\ handled = NotHandled

\* time.monotonic() advances
Tick ==
    /\ now < MaxTime
    /\ now' = now + 1
    /\ streak' = [streak EXCEPT !.n = 0]
    /\ UNCHANGED <<default_config, user_limits, solo_limits, ulast>>
    /\ UNCHANGED <<rlVars, callerVars, cmVars, ssVars, msgVars, histVars, flowVars>>

\* a task that will call acquire() or wait_for_token(timeout) is scheduled
Invoke(kind, timeout) ==
    /\ BagCardinality(calls) < NumCallers
    /\ calls' = calls (+) One(Call(kind, 0, timeout))
    /\ overlapped' = FALSE
    /\ UNCHANGED <<last_ret, acq_prev, acq_last, grants>>
    /\ UNCHANGED <<ssVars, msgVars, histVars, flowVars, now, rlVars, urlVars, cmVars>>

\* the effect of one acquire(), made by `call`, on the bucket and the history
DoAcquire(call, a) ==
    /\ tokens' = a.tokens
    /\ last_update' = a.last_update
    /\ acq_prev' = acq_last
    /\ acq_last' = [t |-> now, seen |-> a.seen, ok |-> a.ok, overlap |-> overlapped]
    /\ overlapped' =
          \E other \in BagToSet(calls (-) One(call)) :
              other.pc \in {"acquire", "wait_for_token"}
    /\ grants' = IF a.ok THEN [grants EXCEPT ![now] = @ + 1] ELSE grants
    /\ UNCHANGED <<ssVars, msgVars, histVars, flowVars, now, config, urlVars, cmVars>>

\* RateLimiter.acquire
AcquireRun(call) ==
    /\ call.pc = "acquire"
    /\ LET a == AcquireToken(tokens, last_update, now, config)
       IN  /\ DoAcquire(call, a)
           /\ last_ret' = Ret(a.ok)
    /\ calls' = calls (-) One(call)

\* wait_for_token: `while time.monotonic() - start_time < timeout`
BeforeOrAtDeadline(t, start, timeout) == t - start <= timeout
BeforeDeadline(t, start, timeout) == t - start < timeout

\* wait_for_token: one evaluation of the while condition and, when it holds,
\* the acquire and either `return True` or the start of sleep(0.1); when it
\* does not, `raise TimeoutError`
WaitIter(call, start) ==
    IF BeforeDeadline(now, start, call.timeout)
    THEN LET a == AcquireToken(tokens, last_update, now, config)
         IN  /\ DoAcquire(call, a)
             /\ last_ret' = IF a.ok THEN RetTrue ELSE last_ret
             /\ calls' = IF a.ok
                         THEN calls (-) One(call)
                         ELSE (calls (-) One(call))
                                  (+) One(Call("sleep", start, call.timeout))
    ELSE /\ last_ret' = TimedOut
         /\ calls' = calls (-) One(call)
         /\ UNCHANGED <<overlapped, acq_prev, acq_last, grants>>
         /\ UNCHANGED <<ssVars, msgVars, histVars, flowVars, now, rlVars, urlVars, cmVars>>

\* wait_for_token: start_time = time.monotonic() and the first iteration
WaitBegin(call) ==
    /\ call.pc = "wait_for_token"
    /\ WaitIter(call, now)

\* wait_for_token: asyncio.sleep(0.1) is over, next iteration
WaitWake(call) ==
    /\ call.pc = "sleep"
    /\ WaitIter(call, call.start)

InitRL == InitLimiter /\ InitCallers /\ InitUsers /\ InitManager
    /\ InitSessions /\ NoMessage /\ NoSessionAlone /\ NoTraffic

NextRL ==
    \/ Tick
    \/ Invoke("acquire", 0)
    \/ \E timeout \in 0..MaxTimeout : Invoke("wait_for_token", timeout)
    \/ \E call \in BagToSet(calls) : AcquireRun(call)
    \/ \E call \in BagToSet(calls) : WaitBegin(call)
    \/ \E call \in BagToSet(calls) : WaitWake(call)

SpecRL == InitRL /\ [][NextRL]_vars

\* time passes, and the event loop runs a wait_for_token that is scheduled
\* or whose sleep is over
SpecRLFair ==
    /\ InitRL /\ [][NextRL]_vars
    /\ WF_vars(Tick)
    /\ WF_vars(\E call \in BagToSet(calls) : WaitBegin(call))
    /\ WF_vars(\E call \in BagToSet(calls) : WaitWake(call))

\* the last two acquire() calls read the same clock value (no refill between
\* them) and the first of them found exactly one whole token in the bucket
OneTokenPair ==
    /\ acq_prev.t >= 0
    /\ acq_prev.t = acq_last.t
    /\ acq_prev.seen >= OneToken
    /\ acq_prev.seen < 2 * OneToken

\* C5: of two acquire calls on one RateLimiter that holds exactly one token,
\* with no refill between them, exactly one returns True and the other False.
C5_OneTokenOneWinner ==
    OneTokenPair => (acq_prev.ok /\ ~acq_last.ok)

\* the two calls were scheduled together; one took the last token, the other
\* found less than a token and was refused
C5_Witness ==
    /\ OneTokenPair
    /\ acq_last.overlap
    /\ acq_prev.ok /\ ~acq_last.ok
    /\ acq_last.seen < OneToken

\* C6: in every reachable state of a RateLimiter 0 <= tokens <= burst_limit.
C6_TokensInRange ==
    /\ 0 <= tokens
    /\ tokens <= BurstUnits(config)

\* after tokens were taken, a later acquire found the bucket refilled up to
\* the cap, and the acquire before it had been refused
C6_Witness ==
    /\ grants[0] > 0
    /\ acq_last.t > 0 /\ acq_last.seen = BurstUnits(config) /\ acq_last.ok
    /\ acq_prev.t >= 0 /\ ~acq_prev.ok /\ acq_prev.seen < OneToken

RECURSIVE SumGrants(_, _)
\* number of acquire() == True with a <= now <= b
SumGrants(a, b) == IF a > b THEN 0 ELSE grants[a] + SumGrants(a + 1, b)

\* C7: the number of acquire calls that return True inside any window of
\* length T is at most burst_limit + max_requests_per_second * T
\* (both sides in token units: T = b - a ticks).
C7_WindowBound ==
    \A a, b \in Times :
        a <= b =>
            SumGrants(a, b) * OneToken
                <= BurstUnits(config) + config.max_requests_per_second * (b - a)

\* a window that uses the whole burst and everything refilled during it
C7_Witness ==
    \E a, b \in Times :
        /\ a < b
        /\ config.max_requests_per_second > 0
        /\ grants[a] > 0 /\ grants[b] > 0
        /\ SumGrants(a, b) * OneToken
               = BurstUnits(config) + config.max_requests_per_second * (b - a)

\* the start_time of a wait_for_token call that takes a step now
StartTime(call) == IF call.pc = "wait_for_token" THEN now ELSE call.start
\* wait_for_token takes a step: it starts, or it comes back from sleep
WaitStep(call) == WaitBegin(call) \/ WaitWake(call)
\* the call ends in this step
Ends(call) == calls' = calls (-) One(call)

\* wait_for_token(timeout) returns True having consumed exactly one token or
\* raises TimeoutError having consumed none, and it raises when it finds the
\* deadline passed
C29_Results ==
    [][\A call \in BagToSet(calls) :
          WaitStep(call) =>
              LET a == AcquireToken(tokens, last_update, now, config)
              IN  /\ Ends(call) =>
                         \/ /\ last_ret' = RetTrue
                            /\ a.seen >= OneToken
                            /\ tokens' = a.seen - OneToken
                         \/ /\ last_ret' = TimedOut
                            /\ now - StartTime(call) >= call.timeout
                            /\ tokens' = tokens
                  /\ ~Ends(call) => (a.seen < OneToken /\ tokens' = a.seen)
                  /\ now - StartTime(call) >= call.timeout =>
                         (Ends(call) /\ last_ret' = TimedOut)]_vars

\* a wait_for_token that sleeps with its deadline inside the time modelled
SleepCalls ==
    {call \in {Call("sleep", start, timeout) :
                   start \in Times, timeout \in 0..MaxTimeout} :
        call.start + call.timeout <= MaxTime}

\* wait_for_token(timeout) always terminates
C29_Terminates ==
    \A call \in SleepCalls :
        (CopiesIn(call, calls) > 0) ~> (CopiesIn(call, calls) = 0)

\* if the bucket holds a token when wait_for_token polls it, on the call or
\* after a sleep, before the deadline, the call returns True
C29_PollGranted ==
    [][\A call \in BagToSet(calls) :
          (/\ WaitStep(call)
           /\ now - StartTime(call) < call.timeout
           /\ HasToken(Refill(tokens, last_update, now, config))) =>
              (Ends(call) /\ last_ret' = RetTrue)]_vars

\* nobody has asked the bucket since last_update, and at some time of the
\* call before its deadline it held a whole token
TokenBeforeDeadline(call) ==
    \E t \in Times :
        /\ last_update <= t
        /\ StartTime(call) <= t
        /\ t < StartTime(call) + call.timeout
        /\ HasToken(Refill(tokens, last_update, t, config))

\* if a token becomes available before the deadline and no other caller
\* takes it, the call returns True: it does not raise TimeoutError
C29_AnyTokenGranted ==
    [][\A call \in BagToSet(calls) :
          (WaitStep(call) /\ Ends(call) /\ last_ret' = TimedOut) =>
              ~TokenBeforeDeadline(call)]_vars

\* C29, as amended: wait_for_token(timeout) always terminates: it either
\* returns True having consumed exactly one token, or raises TimeoutError
\* once the deadline has passed having consumed none; if a token is
\* available at one of its polls (on the call and after each sleep of 0.1 s,
\* while less than timeout has elapsed) it returns True.
C29_WaitForTokenPolls ==
    C29_Results /\ C29_PollGranted /\ C29_Terminates

\* C29: wait_for_token(timeout) always terminates: it either returns True
\* having consumed exactly one token, or raises TimeoutError once the
\* deadline has passed having consumed none; if a token becomes available
\* before the deadline and no other caller takes it, it returns True.
C29_WaitForTokenGetsToken ==
    C29_Results /\ C29_AnyTokenGranted /\ C29_Terminates

\* a wait_for_token was refused at a poll, slept while time passed, and
\* raised TimeoutError at its deadline; another one sleeps
C29_Witness ==
    /\ last_ret = TimedOut
    /\ acq_last.t >= 0 /\ ~acq_last.ok /\ acq_last.t < now
    /\ \E call \in BagToSet(calls) : call.pc = "sleep" /\ call.start = acq_last.t

\* --------------------------------------------------------- UserRateLimiter
\* the config `RateLimitConfig()` that acquire stores for a user it has not
\* seen: the dataclass defaults
ClassDefaultConfig == RateLimitConfig(DefaultRate, DefaultBurst)

\* if user_id not in self._user_limits:
\*     self._user_limits[user_id] = RateLimitConfig()
EnsureUser(limits, key) ==
    IF key \in DOMAIN limits THEN limits ELSE (key :> ClassDefaultConfig) @@ limits

\* a variant that keeps every user under one constant key
UserAcquireOneKey(limits, u, t) ==
    LET key == 1
        known == EnsureUser(limits, key)
        limiter == NewLimiter(known[key], t)
        a == AcquireToken(limiter.tokens, limiter.last_update, t, known[key])
    IN  [limits |-> known, ok |-> a.ok]

\* UserRateLimiter.acquire, the body under self._lock: the config is looked
\* up (and stored when missing), then a RateLimiter is constructed from it
\* and asked once
UserAcquire(limits, u, t) ==
    LET known == EnsureUser(limits, u)
        limiter == NewLimiter(known[u], t)
        a == AcquireToken(limiter.tokens, limiter.last_update, t, known[u])
    IN  [limits |-> known, ok |-> a.ok]

\* UserRateLimiter.get_config_for_user
GetConfigForUser(limits, dflt, u) ==
    IF u \in DOMAIN limits THEN limits[u] ELSE dflt

\* UserRateLimiter.set_custom_limit: self._user_limits[user_id] = config
SetCustomLimit(limits, u, cfg) ==
    (u :> cfg) @@ limits

\* the limiter of the other specifications, unused here
IdleLimiter ==
    /\ now = 0
    /\ config = ClassDefaultConfig
    /\ tokens = NewLimiter(config, 0).tokens
    /\ last_update = NewLimiter(config, 0).last_update

\* handle_user_message: `await self.user_rate_limiter.acquire(user_id)`.
\* The same call is made in the run that only has u's calls.
UserAcquireStep(u) ==
    /\ streak.user = u => streak.n < MaxStreak
    /\ LET r == UserAcquire(user_limits, u, now)
           o == UserAcquire(solo_limits[u], u, now)
       IN  /\ user_limits' = r.limits
           /\ solo_limits' = [solo_limits EXCEPT ![u] = o.limits]
           /\ ulast' = [user |-> u, res |-> Ret(r.ok), solo |-> Ret(o.ok)]
           /\ streak' = [user |-> u,
                         n |-> IF ~r.ok THEN 0
                               ELSE IF streak.user = u THEN streak.n + 1 ELSE 1]
    /\ UNCHANGED default_config
    /\ UNCHANGED <<ssVars, msgVars, histVars, flowVars, now, rlVars, callerVars, cmVars>>

\* set_custom_limit(user_id, config)
SetCustomLimitStep(u, cfg) ==
    /\ user_limits' = SetCustomLimit(user_limits, u, cfg)
    /\ solo_limits' = [solo_limits EXCEPT ![u] = SetCustomLimit(@, u, cfg)]
    /\ streak' = IF streak.user = u THEN [streak EXCEPT !.n = 0] ELSE streak
    /\ UNCHANGED <<default_config, ulast>>
    /\ UNCHANGED <<ssVars, msgVars, histVars, flowVars, now, rlVars, callerVars, cmVars>>

\* user_rate_limiter = UserRateLimiter(rate_config), rate_config read from
\* the environment
InitURL == IdleLimiter /\ InitCallers /\ InitManager
    /\ default_config \in Configs \cup {ClassDefaultConfig}
    /\ InitUserLimits
    /\ InitSessions /\ NoMessage /\ NoSessionAlone /\ NoTraffic

NextURL ==
    \/ Tick
    \/ \E u \in Users : UserAcquireStep(u)
    \/ \E u \in Users : \E cfg \in Configs : SetCustomLimitStep(u, cfg)

SpecURL == InitURL /\ [][NextURL]_vars

\* C8: acquire(u) draws from one bucket kept per user across calls, so with no
\* time elapsing at most burst_limit consecutive acquire(u) calls return True.
C8_PerUserBucket ==
    streak.user \in DOMAIN user_limits =>
        streak.n <= user_limits[streak.user].burst_limit

\* C9: the result of acquire(u) is the same whether or not calls for other
\* users are made: it equals the result in the run with only u's calls.
C9_NoCrossUserInterference ==
    ulast.res = ulast.solo

\* u is admitted after calls were made for another user, whose own limit
\* admits nobody
C9_Witness ==
    \E v \in DOMAIN user_limits :
        /\ ulast.user \in Users
        /\ v # ulast.user
        /\ user_limits[v].burst_limit = 0
        /\ ulast.res = RetTrue
        /\ user_limits # solo_limits[ulast.user]

\* C30: the first acquire(u) of a user with no override is governed by the
\* default config the UserRateLimiter was constructed with (it is the config
\* of the bucket that is asked, and it decides the result), after
\* set_custom_limit(u, c) the later acquire(u) are governed by c, and
\* get_config_for_user(u) reports the config that acquire(u) uses.
C30_ConfigPerUser ==
    [][\A u \in Users :
          /\ UserAcquireStep(u) =>
                 /\ user_limits'[u] = GetConfigForUser(user_limits, default_config, u)
                 /\ u \notin DOMAIN user_limits =>
                        /\ user_limits'[u] = default_config
                        /\ ulast'.res = Ret(HasToken(NewLimiter(default_config, now).tokens))
          /\ \A cfg \in Configs :
                 SetCustomLimitStep(u, cfg) =>
                     /\ GetConfigForUser(user_limits', default_config', u) = cfg
                     /\ UserAcquire(user_limits', u, now').limits[u] = cfg]_vars

\* ------------------------------------------- MessageQueue, ConcurrencyManager
Priorities == 0..MaxPriority

\* asyncio.Queue(maxsize=max_size).full()
QueueFullNever(q) == FALSE
QueueFull(q) == Len(q) >= QueueSize

\* MessageQueue.start_processing, stop_processing and record_error: the
\* bodies of the three coroutine functions
start_processing(p) == p + 1
stop_processing(p) == p - 1
record_error(e) == e + 1

\* `self.message_queue.start_processing()` and the two calls like it in
\* _worker are written without `await`: each only creates a coroutine object
\* that nothing ever runs, so the field keeps the value it had.
OnlyStopAwaited(before, after) == IF after < before THEN after ELSE before
NotAwaited(before, after) == before

\* a worker task
Worker(pc, item, cancelled, listed) ==
    [pc |-> pc, item |-> item, cancelled |-> cancelled, listed |-> listed]
NoItem == 0

\* a task that is done and no longer in _workers is garbage
Kept(w) == IF w.pc = "exit" /\ ~w.listed THEN EmptyBag ELSE One(w)
Replace(w, v) == (workers (-) One(w)) (+) Kept(v)

RECURSIVE SumCopies(_, _)
\* how many members of the bag B are in the set S
SumCopies(S, B) ==
    IF S = {} THEN 0
    ELSE LET x == CHOOSE y \in S : TRUE
         IN  CopiesIn(x, B) + SumCopies(S \ {x}, B)

\* the worker loops that have not ended
LiveWorkers == SumCopies({w \in BagToSet(workers) : w.pc # "exit"}, workers)

RECURSIVE Copies(_, _)
\* n copies of w, as a bag
Copies(w, n) == IF n = 0 THEN EmptyBag ELSE One(w) (+) Copies(w, n - 1)

\* where _worker goes after `except Exception` and `finally`: back to the
\* while test
OnExceptionDie == "exit"
OnException == "loop"

\* ConcurrencyManager.start_workers(num_workers, worker_func)
StartWorkers(n) ==
    /\ BagCardinality(workers) + n <= NumWorkers
    /\ running' = TRUE
    /\ workers' = workers (+) Copies(Worker("loop", NoItem, FALSE, TRUE), n)
    /\ UNCHANGED <<queue, processing, errors, shut, istate, iprio, sres>>
    /\ UNCHANGED <<ssVars, msgVars, histVars, flowVars, now, rlVars, callerVars, urlVars>>

\* _worker: the test `self._running or not self.message_queue.empty()`
LoopWhileBoth(r, q) == r /\ q # << >>
LoopWhile(r, q) == r \/ q # << >>

\* _worker: `while self._running or not self.message_queue.empty()`
WorkerLoop(w) ==
    /\ w.pc = "loop" /\ ~w.cancelled
    /\ workers' = Replace(w, [w EXCEPT !.pc = IF LoopWhile(running, queue)
                                              THEN "wait" ELSE "exit"])
    /\ UNCHANGED <<queue, processing, errors, running, shut, istate, iprio, sres>>
    /\ UNCHANGED <<ssVars, msgVars, histVars, flowVars, now, rlVars, callerVars, urlVars>>

\* asyncio.Queue.get: the position of the entry that leaves the queue, the
\* first (a PriorityQueue would take the entry of the lowest priority number)
FrontByPriority(q) ==
    CHOOSE k \in 1..Len(q) :
        \A j \in 1..Len(q) : q[k][1] < q[j][1] \/ (q[k][1] = q[j][1] /\ k <= j)
Front(q) == 1
RemoveAt(q, k) == SubSeq(q, 1, k - 1) \o SubSeq(q, k + 1, Len(q))

\* MessageQueue.get: `priority, item = await self._queue.get()`,
\* `return item`
GetPriority(entry) == entry[1]
GetItem(entry) == entry[2]

\* _worker: wait_for(self.message_queue.get(), 1.0) returns an item;
\* MessageQueue.get drops the priority; then the start_processing() call
WorkerGet(w) ==
    /\ w.pc = "wait" /\ ~w.cancelled
    /\ queue # << >>
    /\ LET item == GetItem(queue[Front(queue)])
       IN  /\ workers' = Replace(w, [w EXCEPT !.pc = "proc", !.item = item])
           /\ istate' = [istate EXCEPT ![item] = "inflight"]
    /\ queue' = RemoveAt(queue, Front(queue))
    /\ processing' = NotAwaited(processing, start_processing(processing))
    /\ UNCHANGED <<errors, running, shut, iprio, sres>>
    /\ UNCHANGED <<ssVars, msgVars, histVars, flowVars, now, rlVars, callerVars, urlVars>>

\* _worker: wait_for times out on an empty queue, `continue`
WorkerTimeout(w) ==
    /\ w.pc = "wait" /\ ~w.cancelled
    /\ queue = << >>
    /\ workers' = Replace(w, [w EXCEPT !.pc = "loop"])
    /\ UNCHANGED <<queue, processing, errors, running, shut, istate, iprio, sres>>
    /\ UNCHANGED <<ssVars, msgVars, histVars, flowVars, now, rlVars, callerVars, urlVars>>

\* _worker: `await func(item)` returns; finally: stop_processing()
ProcReturn(w) ==
    /\ w.pc = "proc" /\ ~w.cancelled
    /\ istate' = [istate EXCEPT ![w.item] = "done"]
    /\ processing' = NotAwaited(processing, stop_processing(processing))
    /\ workers' = Replace(w, [w EXCEPT !.pc = "loop", !.item = NoItem])
    /\ UNCHANGED <<queue, errors, running, shut, iprio, sres>>
    /\ UNCHANGED <<ssVars, msgVars, histVars, flowVars, now, rlVars, callerVars, urlVars>>

\* _worker: `await func(item)` raises; except Exception: record_error();
\* finally: stop_processing()
ProcRaise(w) ==
    /\ w.pc = "proc" /\ ~w.cancelled
    /\ istate' = [istate EXCEPT ![w.item] = "failed"]
    /\ errors' = NotAwaited(errors, record_error(errors))
    /\ processing' = NotAwaited(processing, stop_processing(processing))
    /\ workers' = Replace(w, [w EXCEPT !.pc = OnException, !.item = NoItem])
    /\ UNCHANGED <<queue, running, shut, iprio, sres>>
    /\ UNCHANGED <<ssVars, msgVars, histVars, flowVars, now, rlVars, callerVars, urlVars>>

\* _worker: the CancelledError of task.cancel() is raised at the await the
\* task is suspended in.  Inside func(item) it is not an Exception: finally
\* runs stop_processing(), then `except asyncio.CancelledError: break`.
WorkerCancelled(w) ==
    /\ w.cancelled /\ w.pc # "exit"
    /\ istate' = IF w.pc = "proc"
                 THEN [istate EXCEPT ![w.item] = "cancelled"]
                 ELSE istate
    /\ processing' = IF w.pc = "proc"
                     THEN NotAwaited(processing, stop_processing(processing))
                     ELSE processing
    /\ workers' = Replace(w, [w EXCEPT !.pc = "exit", !.item = NoItem,
                                       !.cancelled = FALSE])
    /\ UNCHANGED <<queue, errors, running, shut, iprio, sres>>
    /\ UNCHANGED <<ssVars, msgVars, histVars, flowVars, now, rlVars, callerVars, urlVars>>

\* submit_message: `if not await self.rate_limiter.acquire(): return False`
AdmittedAlways(a) == TRUE
Admitted(a) == a.ok

\* the next message to be submitted
NextItem == CHOOSE i \in Items : istate[i] = "unsent" /\ \A j \in Items : j < i => istate[j] # "unsent"

\* ConcurrencyManager.submit_message(message, priority): the rate limiter is
\* asked; denied: `return False`; admitted: MessageQueue.put is entered
Submit(priority) ==
    /\ \E i \in Items : istate[i] = "unsent"
    /\ LET i == NextItem
           a == AcquireToken(tokens, last_update, now, config)
       IN  /\ tokens' = a.tokens
           /\ last_update' = a.last_update
           /\ iprio' = [iprio EXCEPT ![i] = IF Admitted(a) THEN priority ELSE 0]
           /\ istate' = [istate EXCEPT ![i] = IF Admitted(a) THEN "put" ELSE "limited"]
           /\ sres' = [sres EXCEPT ![i] = IF Admitted(a) THEN NoResult ELSE RetFalse]
    /\ UNCHANGED <<queue, processing, errors, running, workers, shut>>
    /\ UNCHANGED <<ssVars, msgVars, histVars, flowVars, now, config, callerVars, urlVars>>

\* MessageQueue.put: self._queue.put((priority, item)) finds room, at once or
\* after waiting: `return True`
PutEnqueue(i) ==
    /\ istate[i] \in {"put", "blocked"}
    /\ ~QueueFull(queue)
    /\ queue' = Append(queue, <<iprio[i], i>>)
    /\ istate' = [istate EXCEPT ![i] = "queued"]
    /\ sres' = [sres EXCEPT ![i] = RetTrue]
    /\ iprio' = [iprio EXCEPT ![i] = 0]
    /\ UNCHANGED <<processing, errors, running, workers, shut>>
    /\ UNCHANGED <<ssVars, msgVars, histVars, flowVars, now, rlVars, callerVars, urlVars>>

\* MessageQueue.put: the queue is full, self._queue.put waits
PutBlock(i) ==
    /\ istate[i] = "put"
    /\ QueueFull(queue)
    /\ istate' = [istate EXCEPT ![i] = "blocked"]
    /\ UNCHANGED <<queue, processing, errors, running, workers, shut, iprio, sres>>
    /\ UNCHANGED <<ssVars, msgVars, histVars, flowVars, now, rlVars, callerVars, urlVars>>

\* MessageQueue.put: wait_for times out after 1.0 s of waiting, the message
\* is dropped: `return False`
PutTimeout(i) ==
    /\ istate[i] = "blocked"
    /\ istate' = [istate EXCEPT ![i] = "dropped"]
    /\ sres' = [sres EXCEPT ![i] = RetFalse]
    /\ iprio' = [iprio EXCEPT ![i] = 0]
    /\ UNCHANGED <<queue, processing, errors, running, workers, shut>>
    /\ UNCHANGED <<ssVars, msgVars, histVars, flowVars, now, rlVars, callerVars, urlVars>>

\* task.cancel(), called by shutdown() on a task of _workers: a no-op on a
\* task that is done
Cancel(w) == [w EXCEPT !.cancelled = @ \/ (w.listed /\ w.pc # "exit")]
\* `for task in self._workers: task.cancel()`
CancelAll ==
    [v \in {Cancel(w) : w \in BagToSet(workers)} |->
        SumCopies({w \in BagToSet(workers) : Cancel(w) = v}, workers)]

\* shutdown() has no statement that touches message_queue: what is queued
\* stays queued
ShutdownDrains(q) == << >>
ShutdownLeaves(q) == q

\* self._workers.clear(): the tasks leave the list; the ended ones are gone
Unlist(w) == [w EXCEPT !.listed = FALSE]
ClearedNone == workers
Cleared ==
    LET live == {w \in BagToSet(workers) : w.pc # "exit"}
    IN  [v \in {Unlist(w) : w \in live} |->
            SumCopies({w \in live : Unlist(w) = v}, workers)]

\* ConcurrencyManager.shutdown(): _running = False, task.cancel() for every
\* task of _workers, and the start of gather.  With _workers empty gather
\* returns at once and shutdown is over.
ShutdownBegin ==
    /\ shut = "idle"
    /\ running' = FALSE
    /\ workers' = CancelAll
    /\ shut' = IF \E w \in BagToSet(workers) : w.listed THEN "gather" ELSE "idle"
    /\ queue' = ShutdownLeaves(queue)
    /\ UNCHANGED <<processing, errors, istate, iprio, sres>>
    /\ UNCHANGED <<ssVars, msgVars, histVars, flowVars, now, rlVars, callerVars, urlVars>>

\* shutdown(): gather returns when every gathered task is done; then
\* self._workers.clear()
ShutdownFinish ==
    /\ shut = "gather"
    /\ \A w \in BagToSet(workers) : (w.listed /\ w.cancelled) => w.pc = "exit"
    /\ workers' = Cleared
    /\ shut' = "idle"
    /\ queue' = ShutdownLeaves(queue)
    /\ UNCHANGED <<processing, errors, running, istate, iprio, sres>>
    /\ UNCHANGED <<ssVars, msgVars, histVars, flowVars, now, rlVars, callerVars, urlVars>>

Init == InitLimiter /\ InitCallers /\ InitUsers /\ InitManager
    /\ InitSessions /\ NoMessage /\ NoSessionAlone /\ NoTraffic

Next ==
    \/ Tick
    \/ \E n \in 1..NumWorkers : StartWorkers(n)
    \/ \E w \in BagToSet(workers) : WorkerLoop(w)
    \/ \E w \in BagToSet(workers) : WorkerGet(w)
    \/ \E w \in BagToSet(workers) : WorkerTimeout(w)
    \/ \E w \in BagToSet(workers) : ProcReturn(w)
    \/ \E w \in BagToSet(workers) : ProcRaise(w)
    \/ \E w \in BagToSet(workers) : WorkerCancelled(w)
    \/ \E priority \in Priorities : Submit(priority)
    \/ \E i \in Items : PutEnqueue(i)
    \/ \E i \in Items : PutBlock(i)
    \/ \E i \in Items : PutTimeout(i)
    \/ ShutdownBegin
    \/ ShutdownFinish

Spec == Init /\ [][Next]_vars

\* the asyncio event loop runs every task that is ready, and func(item) is
\* assumed to return or raise
Fairness ==
    /\ WF_vars(\E w \in BagToSet(workers) : WorkerLoop(w))
    /\ WF_vars(\E w \in BagToSet(workers) : WorkerGet(w))
    /\ WF_vars(\E w \in BagToSet(workers) : ProcReturn(w) \/ ProcRaise(w))
    /\ WF_vars(\E w \in BagToSet(workers) : WorkerCancelled(w))

SpecFair == Init /\ [][Next]_vars /\ Fairness

\* the submit_message calls that have returned, and those that returned True
Returned == {i \in Items : istate[i] \notin {"unsent", "put", "blocked"}}
Accepted == {i \in Items : sres[i] = RetTrue}
\* no worker has taken anything from the queue
NoDrain == \A i \in Items : istate[i] \notin {"inflight", "done", "failed", "cancelled"}
\* the workers inside func(item)
MidItem == SumCopies({w \in BagToSet(workers) : w.pc = "proc"}, workers)

\* C1: with no worker draining a queue of capacity C, at most C of any number
\* of concurrent submit_message calls return True, every other call that
\* returns returns False, and the queued count never exceeds C.
C1_AtMostCapacityAccepted ==
    /\ Len(queue) <= QueueSize
    /\ NoDrain => Cardinality(Accepted) <= QueueSize
    /\ \A i \in Returned :
          /\ sres[i] \in {RetTrue, RetFalse}
          /\ sres[i] = RetTrue <=> istate[i] \notin {"limited", "dropped"}

\* the queue is full of accepted messages, nothing was drained, and a call
\* that the rate limiter admitted waited for room and returned False
C1_Witness ==
    /\ NoDrain
    /\ Cardinality(Accepted) = QueueSize
    /\ Len(queue) = QueueSize
    /\ \E i \in Items : istate[i] = "dropped" /\ sres[i] = RetFalse

\* C2: queued count + in-flight count = the number of accepted items whose
\* process_fn has not completed, and the in-flight count = the number of
\* workers between dequeuing an item and finishing process_fn on it.
C2_InFlightAccounting ==
    /\ processing = MidItem
    /\ Len(queue) + processing
          = Cardinality({i \in Items : istate[i] \in {"queued", "inflight"}})

\* C3: the error count is the number of process_fn invocations that raised:
\* it grows by one at each raise and changes at no other time.
C3_ErrorCount ==
    errors = Cardinality({i \in Items : istate[i] = "failed"})

\* C4: an exception of process_fn is confined to its item: the worker that
\* ran it is back at its loop, the number of live workers is unchanged, and
\* while the pool is running every item queued after a failure is still
\* taken from the queue and passed to process_fn.
C4_ExceptionConfined ==
    /\ [][\A i \in Items :
            (istate[i] = "inflight" /\ istate'[i] = "failed") =>
                /\ LiveWorkers' = LiveWorkers
                /\ \E w \in BagToSet(workers) :
                      /\ w.pc = "proc" /\ w.item = i
                      /\ workers' = Replace(w, [w EXCEPT !.pc = "loop",
                                                         !.item = NoItem])]_vars
    /\ \A j \in Items :
          (istate[j] = "queued" /\ running /\ \E i \in Items : istate[i] = "failed")
              ~> (istate[j] \in {"inflight", "done", "failed", "cancelled"} \/ ~running)

\* an item failed and the pool, still running with its worker alive, has
\* processed a later item to the end
C4_Witness ==
    /\ running
    /\ LiveWorkers >= 1
    /\ \E i, j \in Items : i < j /\ istate[i] = "failed" /\ istate[j] = "done"

\* C10: when the global rate limiter denies the caller, submit_message returns
\* False without attempting the enqueue: the queue contents, the in-flight
\* count and the error count are unchanged.
C10_DeniedLeavesQueueAlone ==
    [][\A i \in Items :
          (/\ istate[i] = "unsent" /\ istate'[i] # "unsent"
           /\ ~AcquireToken(tokens, last_update, now, config).ok) =>
              /\ sres'[i] = RetFalse
              /\ istate'[i] = "limited"
              /\ queue' = queue
              /\ processing' = processing
              /\ errors' = errors]_vars

\* a call was denied and returned False while an accepted message sits in
\* the queue
C10_Witness ==
    /\ queue # << >>
    /\ \E i \in Items : istate[i] = "limited" /\ sres[i] = RetFalse

\* len(self._workers), the "workers" entry of stats
ListedCount == SumCopies({w \in BagToSet(workers) : w.listed}, workers)
\* shutdown() has returned and no worker loop is left
ShutDown == ~running /\ shut = "idle" /\ LiveWorkers = 0

\* C11: an item that a worker has dequeued when shutdown() is called runs
\* to the end of process_fn: no item is cancelled part-way.
C11_InFlightFinishes ==
    \A i \in Items : istate[i] # "cancelled"

\* C12: the items accepted but not dequeued when the pool is shut down are
\* not dropped silently: once shutdown() has returned, the queue_size of
\* stats is the number of accepted items that no worker has taken, and the
\* queue holds exactly those items.
C12_AbandonedCounted ==
    ShutDown =>
        /\ Len(queue) = Cardinality({i \in Items : istate[i] = "queued"})
        /\ \A k \in 1..Len(queue) : istate[queue[k][2]] = "queued"

\* the pool processed an item, was shut down, and a message is left in the
\* queue
C12_Witness ==
    /\ ShutDown
    /\ queue # << >>
    /\ \E i \in Items : istate[i] = "done"

\* C13: stats never reports running = False while a worker is between
\* dequeuing an item and finishing process_fn on it.
C13_NotShutDownMidItem ==
    ~running => MidItem = 0

\* C14: shutdown() is idempotent: when the first call returns no task is left
\* in _workers, and a second call cancels nothing, waits for nothing and
\* leaves the workers, running = False, the queue and the counters as they
\* were.
C14_ShutdownIdempotent ==
    /\ [][(shut = "gather" /\ shut' = "idle") =>
              /\ ListedCount' = 0
              /\ CancelAll' = workers'
              /\ queue' = queue /\ errors' = errors /\ processing' = processing]_vars
    /\ []((~running /\ shut = "idle" /\ ListedCount = 0) =>
              /\ CancelAll = workers
              /\ ShutdownLeaves(queue) = queue)

\* a shutdown() that cancelled a worker in the middle of an item has
\* returned: no task is left
C14_Witness ==
    /\ ~running /\ shut = "idle"
    /\ workers = EmptyBag
    /\ \E i \in Items : istate[i] = "cancelled"

\* the items in the queue, and the workers inside func(item) on item i
QueuedItems == {GetItem(queue[k]) : k \in 1..Len(queue)}
Handling(i) == {w \in BagToSet(workers) : w.pc = "proc" /\ w.item = i}

C26_AcceptedIsProcessed ==
    \A i \in Items :
        (sres[i] = RetTrue /\ running) ~>
            (istate[i] \in {"inflight", "done", "failed", "cancelled"} \/ ~running)

\* the pool is running and has handled every one of the items, all accepted,
\* one of them after a failure
C26_Witness ==
    /\ running
    /\ Accepted = Items
    /\ \A i \in Items : istate[i] \in {"done", "failed"}
    /\ \E i \in Items : istate[i] = "failed"
    /\ istate[NumItems] = "done"

\* C27: the queued count, the in-flight count and the error count that stats
\* reports are never negative.
C27_CountsNonNegative ==
    /\ Len(queue) >= 0
    /\ processing >= 0
    /\ errors >= 0

\* process_fn has returned for one item, raised for another, and a shutdown
\* has cancelled a worker in the middle of a third
C27_Witness ==
    /\ \E i \in Items : istate[i] = "done"
    /\ \E i \in Items : istate[i] = "failed"
    /\ \E i \in Items : istate[i] = "cancelled"
    /\ ~running

\* C28: items leave the queue in the order in which they were accepted,
\* whatever priority they were put with: the queue changes only by a put
\* that adds its entry at the end, or by a get that takes the first entry
\* and hands its item to the worker.
C28_FifoWhateverPriority ==
    [][queue' # queue =>
          \/ \E i \in Items, p \in Priorities : queue' = Append(queue, <<p, i>>)
          \/ /\ queue # << >>
             /\ queue' = Tail(queue)
             /\ \E w \in BagToSet(workers') :
                    w.pc = "proc" /\ w.item = GetItem(Head(queue))]_vars

\* an item was taken by a worker, and the queue holds two entries of which
\* the later has the lower priority number
C28_Witness ==
    /\ Len(queue) >= 2
    /\ queue[1][1] > queue[2][1]
    /\ \E i \in Items : istate[i] \in {"inflight", "done", "failed"}

\* C38: after shutdown() has returned, submit_message accepts no item: a
\* call made then returns False without entering the queue, and no call
\* returns True.  (Workers had been started and took an item; now _running
\* is False, no shutdown is in progress and no worker loop is left.)
C38_NoAcceptAfterShutdown ==
    [][(ShutDown /\ \E j \in Items : istate[j] \in {"done", "failed", "cancelled"}) =>
          \A i \in Items :
              /\ istate[i] = "unsent" => istate'[i] \in {"unsent", "limited"}
              /\ sres'[i] = RetTrue => sres[i] = RetTrue]_vars

\* the content of the bucket at time t, refill included
Content(tok, last, t) == Refill(tok, last, t, config)

\* C39: submit_message consumes a token of the global rate limiter only for
\* an item it accepts: when it returns False because the queue stayed full,
\* the token taken for the call is given back, the bucket holds one token
\* more (up to burst_limit) than before the return.
C39_TokenOnlyForAccepted ==
    [][\A i \in Items :
          PutTimeout(i) =>
              Content(tokens', last_update', now') =
                  Min(Content(tokens, last_update, now) + OneToken, BurstUnits(config))]_vars

\* C39, as amended: submit_message consumes one token of the global rate
\* limiter for every call that the limiter admits, whether the queue then
\* accepts the item or not, and none for a call the limiter refuses: the
\* return of False after the admission timeout leaves the bucket as it is.
C39_TokenPerAdmittedCall ==
    [][\A i \in Items :
          /\ (istate[i] = "unsent" /\ istate'[i] = "put") =>
                 tokens' = Content(tokens, last_update, now) - OneToken
          /\ (istate[i] = "unsent" /\ istate'[i] = "limited") =>
                 tokens' = Content(tokens, last_update, now)
          /\ istate[i] # "unsent" /\ istate'[i] # istate[i] =>
                 (tokens' = tokens /\ last_update' = last_update)]_vars

\* a call was admitted, waited for room in the full queue and returned
\* False; its token is gone: the bucket it was taken from is still empty
C39_Witness ==
    /\ \E i \in Items : istate[i] = "dropped" /\ sres[i] = RetFalse
    /\ Len(queue) = QueueSize
    /\ last_update = now
    /\ tokens = 0

\* C40: the number of process_fn invocations in progress is at most the
\* number of workers start_workers was asked for (NumWorkers in all), and
\* the worker count of stats, len(_workers), is the number of live worker
\* loops.
C40_WorkersBounded ==
    /\ MidItem <= NumWorkers
    /\ ListedCount = LiveWorkers

\* ------------------------------------------- UserSession, SessionService
SessionUsers == 1..NumSessionUsers
Walls == 0..MaxWall
Contents == 1..NumContents
\* None, where a user id is expected
NoUser == 0

\* ConversationMessage(role, content)
ConversationMessage(role, text) == [role |-> role, content |-> text]

\* UserSession.__init__, for the session stored under `key`
UserSession(key, user_id, sid, t) ==
    [key |-> key, user_id |-> user_id, sid |-> sid, created_at |-> t,
     last_activity |-> t, active |-> TRUE, history |-> << >>,
     max_history |-> MaxHistory]

\* deque(maxlen=max_history_messages).append
DequeKeepOldest(h, m, maxlen) ==
    IF Len(h) >= maxlen THEN h ELSE Append(h, m)
DequeAppend(h, m, maxlen) ==
    IF Len(h) >= maxlen THEN Append(Tail(h), m) ELSE Append(h, m)

\* UserSession.add_message
AddMessage(session, role, text, t) ==
    [session EXCEPT !.history = DequeAppend(@, ConversationMessage(role, text),
                                            session.max_history),
                    !.last_activity = t]

\* UserSession.is_expired
IsExpiredIdleOnly(session, t) ==
    t - session.last_activity > SessionTimeout
IsExpired(session, t) ==
    \/ ~session.active
    \/ t - session.last_activity > SessionTimeout

\* UserSession.start_session
StartSession(session, t) ==
    [session EXCEPT !.active = TRUE, !.last_activity = t]

\* `user_id in self._sessions`, self._sessions[user_id], del, and
\* self._sessions[user_id] = session on a dict that keeps insertion order
HasKey(store, key) == \E k \in 1..Len(store) : store[k].key = key
IndexOf(store, key) == CHOOSE k \in 1..Len(store) : store[k].key = key
Lookup(store, key) == store[IndexOf(store, key)]
Remove(store, key) == SelectSeq(store, LAMBDA x : x.key # key)
Put(store, key, session) ==
    IF HasKey(store, key)
    THEN [store EXCEPT ![IndexOf(store, key)] = session]
    ELSE Append(store, session)

\* create_session: `if len(self._sessions) >= self.config.max_sessions`
StoreFullNever(store) == FALSE
StoreFull(store) == Len(store) >= MaxSessions

RECURSIVE OldestFrom(_, _, _, _)
\* create_session: the scan `for user_id, session in self._sessions.items()`
\* from position k on; its result is oldest_user
OldestFrom(store, k, oldest_time, oldest_user) ==
    IF k > Len(store) THEN oldest_user
    ELSE IF store[k].created_at < oldest_time
         THEN OldestFrom(store, k + 1, store[k].created_at, store[k].key)
         ELSE OldestFrom(store, k + 1, oldest_time, oldest_user)

\* create_session: the value of the local name user_id after that scan.  The
\* scan uses user_id as its loop variable, so it leaves the last key of the
\* dict in it; an empty dict leaves the argument.
LoopUser(store, user_id) ==
    IF store = << >> THEN user_id ELSE store[Len(store)].key

\* SessionService.create_session(user_id, ...) at time t; sid is the new
\* session's session_id
CreateSession(store, user_id, sid, t) ==
    LET full == StoreFull(store)
        oldest_user == IF full THEN OldestFrom(store, 1, t, NoUser) ELSE NoUser
        bound_id == IF full THEN LoopUser(store, user_id) ELSE user_id
        kept == IF oldest_user # NoUser THEN Remove(store, oldest_user) ELSE store
    IN  Put(kept, bound_id, UserSession(bound_id, bound_id, sid, t))

\* SessionService.end_session
EndSession(store, user_id) ==
    IF HasKey(store, user_id)
    THEN [store |-> [store EXCEPT ![IndexOf(store, user_id)].active = FALSE],
          result |-> TRUE]
    ELSE [store |-> store, result |-> FALSE]

\* SessionService.is_session_active: an expired session is ended on the way
IsSessionActive(store, user_id, t) ==
    IF ~HasKey(store, user_id) THEN [store |-> store, result |-> FALSE]
    ELSE IF IsExpired(Lookup(store, user_id), t)
         THEN [store |-> EndSession(store, user_id).store, result |-> FALSE]
         ELSE [store |-> store, result |-> Lookup(store, user_id).active]

\* SessionService.add_to_history
AddToHistory(store, user_id, role, text, t) ==
    IF HasKey(store, user_id) /\ Lookup(store, user_id).active
    THEN [store EXCEPT ![IndexOf(store, user_id)] = AddMessage(@, role, text, t)]
    ELSE store

\* SessionService._cleanup_expired_sessions: what it keeps
Cleanup(store, t) == SelectSeq(store, LAMBDA x : ~IsExpired(x, t))

\* datetime.now() advances
WallTick ==
    /\ wall < MaxWall
    /\ wall' = wall + 1
    /\ UNCHANGED <<sessions, total_sessions, expired_sessions, leaving, channels>>
    /\ UNCHANGED <<msgVars, histVars, flowVars, now, rlVars, callerVars, urlVars, cmVars>>

\* MessageController._handle_wake_phrase, up to its first await:
\* create_session(user_id, username, channel)
Wake(u) ==
    /\ total_sessions < MaxTotal
    /\ sessions' = CreateSession(sessions, u, total_sessions + 1, wall)
    /\ total_sessions' = total_sessions + 1
    /\ UNCHANGED <<wall, expired_sessions, leaving, channels>>
    /\ UNCHANGED <<msgVars, histVars, flowVars, now, rlVars, callerVars, urlVars, cmVars>>

\* MessageController.handle_user_message for an ordinary message: the test
\* `if not self.session_service.is_session_active(user_id)`
Chat(u) ==
    /\ sessions' = IsSessionActive(sessions, u, wall).store
    /\ UNCHANGED <<wall, total_sessions, expired_sessions, leaving, channels>>
    /\ UNCHANGED <<msgVars, histVars, flowVars, now, rlVars, callerVars, urlVars, cmVars>>

\* MessageController._handle_goodbye_phrase: the prompt it sends to the
\* backend, get_session_end_prompt or get_session_no_active_prompt
GoodbyePromptAlwaysEnd(store, u, t) == "session_end"
GoodbyePrompt(store, u, t) ==
    IF IsSessionActive(store, u, t).result THEN "session_end" ELSE "session_no_active"

\* MessageController._handle_goodbye_phrase, up to its first await: the test
\* `if self.session_service.is_session_active(user_id)`; only the
\* session_end branch goes on to end_session
GoodbyeBegin(u) ==
    /\ u \notin leaving
    /\ sessions' = IsSessionActive(sessions, u, wall).store
    /\ leaving' = IF GoodbyePrompt(sessions, u, wall) = "session_end"
                  THEN leaving \cup {u} ELSE leaving
    /\ UNCHANGED <<wall, total_sessions, expired_sessions, channels>>
    /\ UNCHANGED <<msgVars, histVars, flowVars, now, rlVars, callerVars, urlVars, cmVars>>

\* _handle_goodbye_phrase after the await: end_session(user_id)
GoodbyeEnd(u) ==
    /\ u \in leaving
    /\ sessions' = EndSession(sessions, u).store
    /\ leaving' = leaving \ {u}
    /\ UNCHANGED <<wall, total_sessions, expired_sessions, channels>>
    /\ UNCHANGED <<msgVars, histVars, flowVars, now, rlVars, callerVars, urlVars, cmVars>>

\* process_message_task: add_to_history(user_id, "assistant", response_text)
Respond(u, text) ==
    /\ sessions' = AddToHistory(sessions, u, "assistant", text, wall)
    /\ UNCHANGED <<wall, total_sessions, expired_sessions, leaving, channels>>
    /\ UNCHANGED <<msgVars, histVars, flowVars, now, rlVars, callerVars, urlVars, cmVars>>

\* SessionService._cleanup_loop: one pass of _cleanup_expired_sessions
Sweep ==
    /\ sessions' = Cleanup(sessions, wall)
    /\ expired_sessions' = expired_sessions + Len(sessions) - Len(Cleanup(sessions, wall))
    /\ UNCHANGED <<wall, total_sessions, leaving, channels>>
    /\ UNCHANGED <<msgVars, histVars, flowVars, now, rlVars, callerVars, urlVars, cmVars>>

\* LilyCoreController.update_user_channel
UpdateUserChannel(u) ==
    /\ channels' = channels \cup {u}
    /\ UNCHANGED <<wall, sessions, total_sessions, expired_sessions, leaving>>
    /\ UNCHANGED <<msgVars, histVars, flowVars, now, rlVars, callerVars, urlVars, cmVars>>

\* LilyCoreController._handle_session_start: a "session_start" message of
\* the backend for a user whose channel is known
SessionStartReply(u) ==
    /\ u \in channels
    /\ sessions' = IF HasKey(sessions, u)
                   THEN [sessions EXCEPT ![IndexOf(sessions, u)] = StartSession(@, wall)]
                   ELSE sessions
    /\ UNCHANGED <<wall, total_sessions, expired_sessions, leaving, channels>>
    /\ UNCHANGED <<msgVars, histVars, flowVars, now, rlVars, callerVars, urlVars, cmVars>>

\* LilyCoreController._handle_session_end
SessionEndReply(u) ==
    /\ u \in channels
    /\ sessions' = EndSession(sessions, u).store
    /\ UNCHANGED <<wall, total_sessions, expired_sessions, leaving, channels>>
    /\ UNCHANGED <<msgVars, histVars, flowVars, now, rlVars, callerVars, urlVars, cmVars>>

\* UserSession(max_history) on its own, for some bound of its history
OneSession ==
    /\ \E n \in 1..MaxDeque :
           sess = [UserSession(1, 1, 1, 0) EXCEPT !.max_history = n]
    /\ appended = << >>

\* UserSession.add_message(role, content)
Add(role, text) ==
    /\ Len(appended) < MaxAppends
    /\ sess' = AddMessage(sess, role, text, wall)
    /\ appended' = Append(appended, ConversationMessage(role, text))
    /\ UNCHANGED <<ssVars, msgVars, flowVars, now, rlVars, callerVars, urlVars, cmVars>>

InitHist == IdleLimiter /\ InitCallers /\ InitUsers /\ InitManager
    /\ InitSessions /\ NoMessage /\ OneSession /\ NoTraffic

NextHist ==
    \E role \in {"user", "assistant"}, text \in Contents : Add(role, text)

SpecHist == InitHist /\ [][NextHist]_vars

InitSS == IdleLimiter /\ InitCallers /\ InitUsers /\ InitManager
    /\ InitSessions /\ NoMessage /\ NoSessionAlone /\ NoTraffic

\* the handlers and the workers that main.py sets up
NextMain ==
    \/ WallTick
    \/ \E u \in SessionUsers : Wake(u)
    \/ \E u \in SessionUsers : Chat(u)
    \/ \E u \in SessionUsers : GoodbyeBegin(u)
    \/ \E u \in SessionUsers : GoodbyeEnd(u)
    \/ \E u \in SessionUsers, text \in Contents : Respond(u, text)

\* the adapter as main.py wires it.  initialize_services constructs
\* SessionService() and never calls its start(), the only place that creates
\* the _cleanup_loop task: no sweep runs.  Time passes.
SpecMain == InitSS /\ [][NextMain]_vars /\ WF_vars(WallTick)

NextSS ==
    \/ NextMain
    \/ Sweep

\* SessionService driven by the MessageController handlers and the workers,
\* with the sweep of a service whose start() was called
SpecSS == InitSS /\ [][NextSS]_vars

\* the same with a LilyCoreController handling the messages of the backend
NextLC ==
    \/ NextSS
    \/ \E u \in SessionUsers : UpdateUserChannel(u)
    \/ \E u \in SessionUsers : SessionStartReply(u)
    \/ \E u \in SessionUsers : SessionEndReply(u)

SpecLC == InitSS /\ [][NextLC]_vars

\* the sessions in the store and their session_ids
Stored(store) == {store[k] : k \in 1..Len(store)}
Sids(store) == {store[k].sid : k \in 1..Len(store)}
\* is_session_active(u) would return True
ActiveFor(store, u, t) == IsSessionActive(store, u, t).result

\* C15: for max_sessions >= 1 and any sequence of create_session,
\* end_session, is_session_active, add_to_history and sweep operations, the
\* store holds at most max_sessions sessions whenever create_session has
\* returned.
C15_AtMostMaxSessions ==
    Len(sessions) <= MaxSessions

\* the store is at max_sessions after a create_session that found it full:
\* nothing was swept, more sessions were created than fit, and the first
\* and the latest of them are both stored
C15_Witness ==
    /\ Len(sessions) = MaxSessions
    /\ total_sessions > MaxSessions
    /\ expired_sessions = 0
    /\ {1, total_sessions} \subseteq Sids(sessions)

\* C16: a create_session that finds the store at max_sessions removes
\* exactly one of the stored sessions, the one with the earliest created_at,
\* and every other stored session is still stored, unchanged, under its own
\* user id afterwards.
C16_EvictsOnlyOldest ==
    [][\A u \in SessionUsers :
          (StoreFull(sessions) /\ Wake(u)) =>
              \E victim \in Stored(sessions) :
                  /\ \A x \in Stored(sessions) : victim.created_at <= x.created_at
                  /\ victim \notin Stored(sessions')
                  /\ \A x \in Stored(sessions) \ {victim} : x \in Stored(sessions')]_vars

\* C17: after a wake phrase of user u has been handled the store holds an
\* active session keyed by u, with user_id u and an empty history, and
\* is_session_active(u) is True, whatever the store held before.
C17_WakeGivesOwnSession ==
    [][\A u \in SessionUsers :
          Wake(u) =>
              /\ HasKey(sessions', u)
              /\ Lookup(sessions', u).user_id = u
              /\ Lookup(sessions', u).active
              /\ Lookup(sessions', u).history = << >>
              /\ ActiveFor(sessions', u, wall')]_vars

\* user u's session is stored, was ended, and not by running out of time
EndedExplicitly(u) ==
    /\ HasKey(sessions, u)
    /\ ~Lookup(sessions, u).active
    /\ wall - Lookup(sessions, u).last_activity <= SessionTimeout

\* C20: once u's session has been ended by a goodbye, is_session_active(u)
\* stays False until a wake phrase of u creates a new session: no other
\* step makes it True.
C20_EndedStaysEnded ==
    [][\A u \in SessionUsers :
          (EndedExplicitly(u) /\ ActiveFor(sessions', u, wall')) => Wake(u)]_vars

\* C21: a session is removed from the store on explicit end: after
\* end_session(u) has returned True (here in the goodbye handler) the store
\* has no session under u and holds one session less.
C21_EndedIsRemoved ==
    [][\A u \in SessionUsers :
          (GoodbyeEnd(u) /\ EndSession(sessions, u).result) =>
              /\ ~HasKey(sessions', u)
              /\ Len(sessions') < Len(sessions)]_vars

\* C22: for a user with no session in the store, the handler of a message
\* that is not a wake phrase leaves the store as it is: the same sessions
\* with the same active flag, history and last_activity (the only access of
\* the chat and the goodbye handler to the store is is_session_active), and
\* a goodbye phrase gets the no-active prompt, not a session end.
C22_NoSessionNoChange ==
    \A u \in SessionUsers :
        ~HasKey(sessions, u) =>
            /\ IsSessionActive(sessions, u, wall).store = sessions
            /\ ~IsSessionActive(sessions, u, wall).result
            /\ GoodbyePrompt(sessions, u, wall) = "session_no_active"

\* a user without a session, while the store holds a session that timed out
\* (which an is_session_active on it would end) and a session with history
C22_Witness ==
    \E u \in SessionUsers :
        /\ ~HasKey(sessions, u)
        /\ total_sessions > Len(sessions)
        /\ \E x \in Stored(sessions) : x.active /\ IsExpired(x, wall)
        /\ \E x \in Stored(sessions) : x.history # << >>

\* the last n elements of a sequence
LastN(seq, n) == SubSeq(seq, Len(seq) - n + 1, Len(seq))

\* C23: a session's history is exactly the most recent
\* min(n, max_history_messages) of the n messages given to add_message, in
\* call order; so it is never longer than max_history_messages.
C23_HistoryIsLastMessages ==
    /\ sess.history = LastN(appended, Min(Len(appended), sess.max_history))
    /\ Len(sess.history) <= sess.max_history

\* more messages than max_history_messages were appended, and the history
\* kept holds different messages
C23_Witness ==
    /\ sess.max_history >= 2
    /\ Len(appended) >= sess.max_history + 2
    /\ sess.history[1] # sess.history[2]
    /\ appended[1] # sess.history[1]

\* the session with session_id sid is stored and has been idle for longer
\* than the session timeout
IdleTooLong(sid) ==
    \E x \in Stored(sessions) :
        x.sid = sid /\ wall - x.last_activity > SessionTimeout

\* C24: while the adapter runs, every session that has been idle for longer
\* than the session timeout is eventually removed from the store, with no
\* further message of its user.
C24_IdleSessionSwept ==
    \A sid \in 1..MaxTotal :
        IdleTooLong(sid) ~> (sid \notin Sids(sessions))

\* C34: one pass of the sweep removes exactly the stored sessions that are
\* expired at that moment (ended, or idle for longer than the timeout),
\* leaves the others stored and unchanged, and adds the number of sessions
\* it removed to expired_sessions.
C34_SweepRemovesExpired ==
    [][Sweep =>
          /\ \A x \in Stored(sessions) :
                 x \in Stored(sessions') <=>
                     (x.active /\ wall - x.last_activity <= SessionTimeout)
          /\ Stored(sessions') \subseteq Stored(sessions)
          /\ expired_sessions' - expired_sessions = Len(sessions) - Len(sessions')]_vars

\* a sweep has removed the second of two sessions and left the first
C34_Witness ==
    /\ expired_sessions = 1
    /\ total_sessions = 2
    /\ Len(sessions) = 1
    /\ sessions[1].sid = 1

\* ------------------------------------------------- phrase classification
\* A string is a sequence of pieces: each piece stands for a run of
\* characters without a space ("Hey" is "hey" with an upper-case letter),
\* or for one space.
Chars == {"hey", "Hey", "lily", "goodbye", "how", " "}
Strings == UNION {[1..n -> Chars] : n \in 0..MaxLen}

\* SessionService.WAKE_PHRASE and GOODBYE_PHRASE
WAKE_PHRASE == <<"hey", " ", "lily">>
GOODBYE_PHRASE == <<"goodbye", " ", "lily">>

\* str.lower()
Lower(str) == [k \in 1..Len(str) |-> IF str[k] = "Hey" THEN "hey" ELSE str[k]]

RECURSIVE LStrip(_)
LStrip(str) ==
    IF str # << >> /\ Head(str) = " " THEN LStrip(Tail(str)) ELSE str
RECURSIVE RStrip(_)
RStrip(str) ==
    IF str # << >> /\ str[Len(str)] = " "
    THEN RStrip(SubSeq(str, 1, Len(str) - 1)) ELSE str
\* str.strip()
Strip(str) == RStrip(LStrip(str))

\* str.startswith(prefix)
StartsWith(str, prefix) ==
    /\ Len(prefix) <= Len(str)
    /\ SubSeq(str, 1, Len(prefix)) = prefix

\* str.split(' ', 1): the pieces around the first space
Split1(str) ==
    IF \E k \in 1..Len(str) : str[k] = " "
    THEN LET k == CHOOSE j \in 1..Len(str) :
                      str[j] = " " /\ \A i \in 1..(j - 1) : str[i] # " "
         IN  <<SubSeq(str, 1, k - 1), SubSeq(str, k + 1, Len(str))>>
    ELSE <<str>>

\* SessionService.is_wake_phrase
IsWakePhrase(text) == StartsWith(Lower(text), WAKE_PHRASE)

\* SessionService.is_goodbye_phrase
IsGoodbyePrefix(text) == StartsWith(Lower(text), GOODBYE_PHRASE)
IsGoodbyePhrase(text) == Lower(text) = GOODBYE_PHRASE

\* SessionService.extract_message_after_wake
ExtractMessageAfterWake(text) ==
    LET words == Split1(text)
    IN  IF Len(words) > 1 THEN Strip(words[2]) ELSE << >>

\* MessageController.handle_user_message: content = message.content.strip(),
\* then the wake test, then the goodbye test; _handle_wake_phrase extracts
\* the message after the wake phrase
HandleUserMessage(raw) ==
    LET text == Strip(raw)
    IN  IF IsWakePhrase(text)
        THEN [branch |-> "wake", extracted |-> ExtractMessageAfterWake(text)]
        ELSE IF IsGoodbyePhrase(text)
             THEN [branch |-> "goodbye", extracted |-> << >>]
             ELSE [branch |-> "other", extracted |-> << >>]

\* a message arrives
AnyMessage ==
    /\ content \in Strings
    /\ handled = NotHandled

\* on_message: the message is handled
Handle ==
    /\ handled = NotHandled
    /\ handled' = HandleUserMessage(content)
    /\ UNCHANGED <<content, histVars, flowVars, ssVars, now, rlVars, callerVars, urlVars, cmVars>>

InitMsg == IdleLimiter /\ InitCallers /\ InitUsers /\ InitManager
    /\ InitSessions /\ AnyMessage /\ NoSessionAlone /\ NoTraffic

NextMsg == Handle

SpecMsg == InitMsg /\ [][NextMsg]_vars

\* what follows the first n pieces of a string
Following(str, n) == SubSeq(str, n + 1, Len(str))

\* C18: for every message that starts with the wake phrase,
\* extract_message_after_wake returns exactly the text that follows the wake
\* phrase, trimmed, and the empty string when nothing follows it.
C18_ExtractsTextAfterWake ==
    handled.branch = "wake" =>
        handled.extracted = Strip(Following(Strip(content), Len(WAKE_PHRASE)))

Author == 1
AuthorName == "TestUser"

\* what send_chat_message returns: no text (None or ""), or a text; and the
\* mark of a call that has not returned yet
NoReply == ""
Replies == {NoReply, "Hello there!"}
Pending == "pending"

\* the extensions _handle_chat_message passes on
AUDIO_EXTENSIONS == {".wav", ".mp3", ".m4a", ".flac", ".ogg"}

\* a discord.Attachment: the fields the handler reads
Attachment(stem, ext) ==
    [filename |-> <<stem, ext>>, url |-> <<"cdn", stem, ext>>, id |-> stem]
Voice == Attachment("voice", ".ogg")
Picture == Attachment("picture", ".png")

\* attachment.filename.endswith(('.wav', '.mp3', '.m4a', '.flac', '.ogg'))
IsAudioAny(a) == TRUE
IsAudio(a) == a.filename[2] \in AUDIO_EXTENSIONS

\* the dict appended for an audio attachment
AudioDict(a) == [type |-> "audio", url |-> a.url, filename |-> a.filename]

RECURSIVE AudioAttachments(_)
\* _handle_chat_message: the list `attachments` it builds
AudioAttachments(atts) ==
    IF atts = << >> THEN << >>
    ELSE (IF IsAudio(Head(atts)) THEN <<AudioDict(Head(atts))>> ELSE << >>)
             \o AudioAttachments(Tail(atts))

\* get_session_start_prompt(username), and the label put before the user's
\* message
StartPrompt == "session_start"
UserMessageLabel == "User's message:"

\* _handle_wake_phrase: the prompt, with the extracted message if any
WakePromptBare(actual) == <<StartPrompt>>
WakePrompt(actual) ==
    IF actual # << >> THEN <<StartPrompt, UserMessageLabel>> \o actual
    ELSE <<StartPrompt>>

\* the messages the author sends: text, channel and attachments
Message(raw, ch, attachments) ==
    [raw |-> raw, channel |-> ch, attachments |-> attachments]
FlowMessages ==
    {Message(<<"hey", " ", "lily">>, "general", << >>),
     Message(<<"Hey", " ", "lily", " ", "how">>, "voice", << >>),
     Message(<<"goodbye", " ", "lily">>, "voice", << >>),
     Message(<<"how">>, "general", << >>),
     Message(<<" ", "how">>, "voice", <<Picture, Voice>>)}
\* the messages that the per-user rate limiter may refuse
FlowLimited == {Message(<<"how">>, "general", << >>)}

\* the fixed texts the adapter sends to a channel itself
TooFast == "You're sending messages too fast! Please slow down."
WakeHint == "Hi! Say 'Hey Lily' to wake me up and start a conversation."
QueueFullText == "Message queue is full. Please try again."
TroubleText == "I'm having trouble connecting to my brain right now."

\* channel.send / send_message(channel, text) for message m
Delivery(m, ch, kind, text) ==
    [msg |-> m, channel |-> ch, kind |-> kind, text |-> text]

\* a call of send_chat_message(user_id, username, text, attachments) made
\* for message m by the handler or by the worker
Request(m, by, text, attachments) ==
    [msg |-> m, by |-> by, user_id |-> Author, username |-> AuthorName,
     text |-> text, attachments |-> attachments, resp |-> Pending]

\* message_data, for message m
MessageData(m, text, ch, attachments) ==
    [msg |-> m, user_id |-> Author, username |-> AuthorName, text |-> text,
     channel |-> ch, attachments |-> attachments]

\* handle_user_message: the sid of the author's session, 0 without one
SidOf(store) == IF HasKey(store, Author) THEN Lookup(store, Author).sid ELSE 0

\* `if self.concurrency_manager:`, the pool path, else the direct path
FirstAwait(p) == IF p THEN "submit" ELSE "send"

\* handle_user_message(message) up to its first suspension, for a message
\* that the per-user rate limiter lets through or not: the branch taken,
\* the session store it leaves, whether it goes on to the backend, with
\* which text and attachments, and what it sends to the channel at once
Begin(msg, limited, store, t, new_sid) ==
    LET text == Strip(msg.raw)
        h == HandleUserMessage(msg.raw)
        a == IsSessionActive(store, Author, t)
    IN  IF limited
        THEN [branch |-> "limited", store |-> store, forward |-> FALSE,
              text |-> << >>, fwd |-> << >>, active |-> a.result, sid |-> 0,
              says |-> <<TooFast>>]
        ELSE IF h.branch = "wake"
        THEN [branch |-> "wake",
              store |-> CreateSession(store, Author, new_sid, t),
              forward |-> TRUE, text |-> WakePrompt(h.extracted),
              fwd |-> << >>, active |-> TRUE, sid |-> new_sid, says |-> << >>]
        ELSE IF h.branch = "goodbye"
        THEN [branch |-> "goodbye", store |-> a.store, forward |-> TRUE,
              text |-> <<GoodbyePrompt(store, Author, t)>>, fwd |-> << >>,
              active |-> a.result,
              sid |-> IF a.result THEN SidOf(store) ELSE 0, says |-> << >>]
        ELSE IF ~a.result
        THEN [branch |-> "other", store |-> a.store, forward |-> FALSE,
              text |-> text, fwd |-> << >>, active |-> FALSE, sid |-> 0,
              says |-> IF StartsWith(Lower(text), <<"hey">>)
                       THEN <<WakeHint>> ELSE << >>]
        ELSE [branch |-> "other", store |-> a.store, forward |-> TRUE,
              text |-> text, fwd |-> AudioAttachments(msg.attachments),
              active |-> TRUE, sid |-> SidOf(store), says |-> << >>]

Handled == 1..Len(inbox)
\* the responses of the backend sent to a channel for message m
ResponsesTo(m) == SelectSeq(delivered[m], LAMBDA x : x.kind = "response")

\* send_chat_message returns resp to the handler or to the worker: the
\* call among reqs that has not returned gets its result
Answer(reqs, by, resp) ==
    [k \in 1..Len(reqs) |->
        IF reqs[k].by = by /\ reqs[k].resp = Pending
        THEN [reqs[k] EXCEPT !.resp = resp] ELSE reqs[k]]

\* on_message: handle_user_message(message) runs up to its first
\* suspension
OnMessage(msg, limited) ==
    /\ Len(inbox) < MaxMsgs
    /\ total_sessions < MaxTotal
    /\ LET m == Len(inbox) + 1
           b == Begin(msg, limited, sessions, wall, total_sessions + 1)
           direct == b.forward /\ FirstAwait(pooled) = "send"
       IN  /\ sessions' = b.store
           /\ total_sessions' =
                  IF b.branch = "wake" THEN total_sessions + 1 ELSE total_sessions
           /\ inbox' = Append(inbox,
                  [raw |-> msg.raw, channel |-> msg.channel,
                   attachments |-> msg.attachments, branch |-> b.branch,
                   pc |-> IF b.forward THEN FirstAwait(pooled) ELSE "done",
                   text |-> b.text, fwd |-> b.fwd, active |-> b.active,
                   sid |-> b.sid, at |-> wall])
           /\ requests' = Append(requests,
                  IF direct THEN <<Request(m, "handler", b.text, b.fwd)>> ELSE << >>)
           /\ delivered' = Append(delivered,
                  IF b.says # << >>
                  THEN <<Delivery(m, msg.channel, "notice", b.says[1])>> ELSE << >>)
    /\ UNCHANGED <<pooled, work, task>>
    /\ UNCHANGED <<wall, expired_sessions, leaving, channels>>
    /\ UNCHANGED <<msgVars, histVars, now, rlVars, callerVars, urlVars, cmVars>>

\* the goodbye handler of a user with an active session goes on to
\* end_session
EndsSession(x) == x.branch = "goodbye" /\ x.active

\* submit_message(message_data) returns to the handler of message m
SubmitReturns(m, ok) ==
    /\ m \in Handled
    /\ inbox[m].pc = "submit"
    /\ LET x == inbox[m]
           again == EndsSession(x) /\ ~ok
       IN  /\ work' = IF ok
                      THEN Append(work, MessageData(m, x.text, x.channel, x.fwd))
                      ELSE work
           /\ inbox' = [inbox EXCEPT ![m].pc = IF again THEN "fallback" ELSE "done"]
           /\ requests' = IF again
                          THEN [requests EXCEPT ![m] =
                                    Append(@, Request(m, "handler", x.text, << >>))]
                          ELSE requests
           /\ delivered' = IF ~ok /\ x.branch \in {"wake", "other"}
                           THEN [delivered EXCEPT ![m] =
                                    Append(@, Delivery(m, x.channel, "notice", QueueFullText))]
                           ELSE delivered
           /\ sessions' = IF EndsSession(x) /\ ok
                          THEN EndSession(sessions, Author).store
                          ELSE sessions
    /\ UNCHANGED <<pooled, task>>
    /\ UNCHANGED <<wall, total_sessions, expired_sessions, leaving, channels>>
    /\ UNCHANGED <<msgVars, histVars, now, rlVars, callerVars, urlVars, cmVars>>

\* send_chat_message returns to the handler of message m: on the direct
\* path the response is sent to the channel, after a rejected goodbye it is
\* dropped; the goodbye handler then ends the session
BackendReplies(m, resp) ==
    /\ m \in Handled
    /\ inbox[m].pc \in {"send", "fallback"}
    /\ LET x == inbox[m]
       IN  /\ requests' = [requests EXCEPT ![m] = Answer(@, "handler", resp)]
           /\ delivered' = IF x.pc = "send" /\ resp # NoReply
                           THEN [delivered EXCEPT ![m] =
                                    Append(@, Delivery(m, x.channel, "response", resp))]
                           ELSE delivered
           /\ sessions' = IF EndsSession(x)
                          THEN EndSession(sessions, Author).store
                          ELSE sessions
           /\ inbox' = [inbox EXCEPT ![m].pc = "done"]
    /\ UNCHANGED <<pooled, work, task>>
    /\ UNCHANGED <<wall, total_sessions, expired_sessions, leaving, channels>>
    /\ UNCHANGED <<msgVars, histVars, now, rlVars, callerVars, urlVars, cmVars>>

\* a worker takes the next message_data and calls process_message_task,
\* which calls send_chat_message
WorkerTakes ==
    /\ task = Idle
    /\ work # << >>
    /\ LET item == Head(work)
       IN  /\ task' = [pc |-> "call", item |-> item]
           /\ requests' = [requests EXCEPT ![item.msg] = Append(@,
                  [Request(item.msg, "worker", item.text, item.attachments)
                       EXCEPT !.user_id = item.user_id, !.username = item.username])]
    /\ work' = Tail(work)
    /\ UNCHANGED <<pooled, inbox, delivered>>
    /\ UNCHANGED ssVars
    /\ UNCHANGED <<msgVars, histVars, now, rlVars, callerVars, urlVars, cmVars>>

\* process_message_task: the user whose history gets the response
HistoryOf(item) == item.user_id

\* process_message_task after send_chat_message returned
WorkerReplies(resp) ==
    /\ task # Idle
    /\ LET item == task.item
       IN  /\ requests' = [requests EXCEPT ![item.msg] = Answer(@, "worker", resp)]
           /\ delivered' = [delivered EXCEPT ![item.msg] = Append(@,
                  IF resp # NoReply
                  THEN Delivery(item.msg, item.channel, "response", resp)
                  ELSE Delivery(item.msg, item.channel, "notice", TroubleText))]
           /\ sessions' = IF resp # NoReply
                          THEN AddToHistory(sessions, HistoryOf(item), "assistant", resp, wall)
                          ELSE sessions
    /\ task' = Idle
    /\ UNCHANGED <<pooled, inbox, work>>
    /\ UNCHANGED <<wall, total_sessions, expired_sessions, leaving, channels>>
    /\ UNCHANGED <<msgVars, histVars, now, rlVars, callerVars, urlVars, cmVars>>

\* MessageController(bot, session_service, lily_core_service,
\* concurrency_manager): with a pool or without
InitFlow == IdleLimiter /\ InitCallers /\ InitUsers /\ InitManager
    /\ InitSessions /\ NoMessage /\ NoSessionAlone
    /\ pooled \in BOOLEAN
    /\ inbox = << >>
    /\ requests = << >>
    /\ delivered = << >>
    /\ work = << >>
    /\ task = Idle

NextFlow ==
    \/ WallTick
    \/ \E msg \in FlowMessages : OnMessage(msg, FALSE)
    \/ \E msg \in FlowLimited : OnMessage(msg, TRUE)
    \/ \E m \in 1..MaxMsgs, ok \in BOOLEAN : SubmitReturns(m, ok)
    \/ \E m \in 1..MaxMsgs, resp \in Replies : BackendReplies(m, resp)
    \/ WorkerTakes
    \/ \E resp \in Replies : WorkerReplies(resp)

SpecFlow == InitFlow /\ [][NextFlow]_vars

\* the messages handled as wake, as goodbye, as ordinary messages
Ordinary(m) ==
    /\ inbox[m].branch # "limited"
    /\ HandleUserMessage(inbox[m].raw).branch = "other"
WakeMessage(m) ==
    /\ inbox[m].branch # "limited"
    /\ HandleUserMessage(inbox[m].raw).branch = "wake"

\* a call of send_chat_message that has returned a text
Answered(r) == r.resp # Pending /\ r.resp # NoReply

C32_GoodbyeOnce ==
    \A m \in Handled :
        (inbox[m].branch = "goodbye" /\ inbox[m].active) =>
            /\ Len(requests[m]) <= 1
            /\ Len(ResponsesTo(m)) <= 1
            /\ \A r \in {requests[m][k] : k \in 1..Len(requests[m])} :
                   r.text = <<"session_end">>
            /\ inbox[m].pc = "done" =>
                   /\ Len(requests[m]) = 1
                   /\ Answered(requests[m][1]) =>
                          ResponsesTo(m) =
                              <<Delivery(m, inbox[m].channel, "response",
                                         requests[m][1].resp)>>
                   /\ \A s \in Stored(sessions) : s.sid = inbox[m].sid => ~s.active

\* the audio attachments of a message, as the dicts the backend is given
AudioOf(atts) ==
    LET audio == SelectSeq(atts, LAMBDA a :
                     a.filename[2] \in {".wav", ".mp3", ".m4a", ".flac", ".ogg"})
    IN  [k \in 1..Len(audio) |->
            [type |-> "audio", url |-> audio[k].url, filename |-> audio[k].filename]]

\* the message_data of message m waits in the queue
Waiting(m) == \E k \in 1..Len(work) : work[k].msg = m
\* submit_message refused message m
Refused(m) ==
    \E k \in 1..Len(delivered[m]) : delivered[m][k].text = QueueFullText

\* C33: an ordinary message is forwarded to the backend if and only if its
\* author has an active session when it is handled (whatever the path, as
\* soon as its handler is done); the request carries the user id, the
\* username, the text and the attachments of the message, and the response
\* is delivered to the channel the message came from.
C33_ForwardedIffActive ==
    \A m \in Handled :
        HandleUserMessage(inbox[m].raw).branch = "other" =>
            LET x == inbox[m]
            IN  /\ x.pc = "done" => (requests[m] # << >> <=> x.active)
                /\ \A k \in 1..Len(requests[m]) :
                       /\ requests[m][k].user_id = Author
                       /\ requests[m][k].username = AuthorName
                       /\ requests[m][k].text = x.raw
                       /\ requests[m][k].attachments = x.attachments
                /\ \A k \in 1..Len(ResponsesTo(m)) :
                       ResponsesTo(m)[k].channel = x.channel

\* C33, as amended: an ordinary message is forwarded only if the per-user
\* rate limiter let it through and its author has an active session when
\* it is handled; such a message is forwarded exactly once, at once on the
\* direct path, and on the pool path when submit_message has accepted it
\* and a worker has taken it (a refused one gets the queue-full notice and
\* is not forwarded).  The request carries the user id and username of the
\* message, its text without surrounding white space and its audio
\* attachments as type/url/filename dicts; the response is delivered once,
\* to the channel the message came from.
C33_ForwardedWhenActiveAndAccepted ==
    \A m \in Handled :
        HandleUserMessage(inbox[m].raw).branch = "other" =>
            LET x == inbox[m]
                let_through == x.branch # "limited" /\ x.active
            IN  /\ requests[m] # << >> => let_through
                /\ Len(requests[m]) <= 1
                /\ (let_through /\ ~pooled) => Len(requests[m]) = 1
                /\ (let_through /\ pooled /\ x.pc = "done") =>
                       IF Refused(m) THEN requests[m] = << >> /\ ~Waiting(m)
                       ELSE Waiting(m) \/ Len(requests[m]) = 1
                /\ \A k \in 1..Len(requests[m]) :
                       /\ requests[m][k].user_id = Author
                       /\ requests[m][k].username = AuthorName
                       /\ requests[m][k].text = Strip(x.raw)
                       /\ requests[m][k].attachments = AudioOf(x.attachments)
                       /\ ResponsesTo(m) =
                              IF Answered(requests[m][k])
                              THEN <<Delivery(m, x.channel, "response", requests[m][k].resp)>>
                              ELSE << >>

\* on the pool path a message with white space before its text, a picture
\* and a voice attachment, sent in another channel than the wake phrase,
\* was forwarded by a worker and answered
C33_Witness ==
    /\ pooled
    /\ \E m \in Handled :
          /\ Ordinary(m)
          /\ inbox[m].raw # Strip(inbox[m].raw)
          /\ Len(inbox[m].attachments) = 2
          /\ inbox[m].channel # inbox[1].channel
          /\ Len(requests[m]) = 1
          /\ Len(requests[m][1].attachments) = 1
          /\ Len(ResponsesTo(m)) = 1

\* C35: a session created by a wake phrase is not ended by a goodbye phrase
\* received before that wake phrase: when a goodbye handler finishes, every
\* session created after the one it found active, and active then, is
\* still active.
C35_NewSessionSurvivesOldGoodbye ==
    [][\A m \in Handled :
          (inbox[m].branch = "goodbye" /\ inbox[m].pc # "done" /\ inbox'[m].pc = "done") =>
              \A k \in 1..Len(sessions) :
                  (sessions[k].sid > inbox[m].sid /\ sessions[k].active) =>
                      sessions'[k].active]_vars

\* C36: the response of the backend to a work item is appended only to the
\* history of the session that was active when the item was submitted: no
\* other session is changed when process_message_task finishes.
C36_ResponseToSubmittingSession ==
    [][(task # Idle /\ task' = Idle) =>
          \A k \in 1..Len(sessions) :
              sessions'[k] # sessions[k] =>
                  sessions[k].sid = inbox[task.item.msg].sid]_vars

\* C37: every ordinary message handled for a user with an active session
\* resets the last_activity of that session: the session is never idle
\* since before the latest such message, on either path.
C37_MessageResetsIdleTimer ==
    \A m \in Handled :
        (Ordinary(m) /\ inbox[m].active) =>
            \A s \in Stored(sessions) :
                s.sid = inbox[m].sid => s.last_activity >= inbox[m].at

====
